---------------------------- MODULE Spec2Model ----------------------------
(***************************************************************************)
(* Task Store of the mobile task tracker (TaskProvider in the navigator    *)
(* module) together with the screen handlers that call it, and the Remote  *)
(* Task Service they talk to.                                              *)
(*                                                                         *)
(* The client is single threaded: a handler runs until its next await, so  *)
(* one action is one such run.  A request goes through three steps: the    *)
(* client issues it, the service serves it (Serve...), and the response    *)
(* (Respond...) or a transport error (Fail...) reaches the client, whose   *)
(* continuation then runs to its next await or to its return.              *)
(*                                                                         *)
(* A task list is modelled as the set of its records (ids are unique), a   *)
(* string as the sequence of its characters.                               *)
(***************************************************************************)
EXTENDS Integers, Sequences, FiniteSets, TLC

\* ------------------------------------------------------------- bounds
\* Number of store calls that can be in flight at once.
MaxInFlight == 2
\* Number of ids the service hands out (ids are never reused).
MaxId == 1

Slots == 1..MaxInFlight
Ids == 1..MaxId

\* ------------------------------------------------------------- inputs
Blank == " "
\* The (title, description, highPriority) triples a user submits.
AddInputs == { <<<<Blank>>, <<>>, FALSE>>, <<<<"a">>, <<>>, FALSE>>, <<<<"b">>, <<"a">>, TRUE>> }
Queries == { <<>>, <<"b">> }

VARIABLES
  server,      \* Remote Task Service: the stored task records
  nextId,      \* Remote Task Service: next id to assign
  tasks,       \* TaskProvider: the in-memory collection (useState)
  mounted,     \* TaskProvider: the mount effect has run
  searchTerm,  \* HomeScreen: the search term (useState)
  loading,     \* AddTaskScreen: the saving flag (useState)
  calls,       \* the store calls in flight, one record per slot
  last,        \* the call that returned in the latest step, as its caller saw it
  deleted,     \* the ids whose deleteTask call has returned true
  detail       \* DetailTaskScreen: route.params.taskId of the focused screen, 0 if none

vars == <<server, nextId, tasks, mounted, searchTerm, loading, calls, last, deleted, detail>>

\* ------------------------------------------------------------- strings
IsSpace(ch) == ch = Blank

RECURSIVE TrimStart(_)
TrimStart(s) ==
  IF s # <<>> /\ IsSpace(Head(s)) THEN TrimStart(Tail(s)) ELSE s

RECURSIVE TrimEnd(_)
TrimEnd(s) ==
  IF s # <<>> /\ IsSpace(s[Len(s)]) THEN TrimEnd(SubSeq(s, 1, Len(s) - 1)) ELSE s

\* String.prototype.trim
Trim(s) == TrimEnd(TrimStart(s))

\* substring test used by the service's search filter
Contains(s, q) ==
  \E i \in 0..(Len(s) - Len(q)) : SubSeq(s, i + 1, i + Len(q)) = q

\* ------------------------------------------------------------- records
\* type Task
Task(i, t, d, c, h) ==
  [id |-> i, title |-> t, description |-> d, completed |-> c, highPriority |-> h]

\* A slot that holds no call.
IdleCall ==
  [op |-> "none", via |-> "none", pc |-> "idle",
   title |-> <<>>, description |-> <<>>, highPriority |-> FALSE,
   id |-> 0, seen |-> FALSE, status |-> FALSE, q |-> <<>>,
   params |-> {}, body |-> {},
   nWrite |-> 0, nList |-> 0, wOk |-> "none", lOk |-> "none",
   result |-> "none", connAlert |-> FALSE, ui |-> "none",
   after |-> {}, fresh |-> FALSE, clean |-> TRUE,
   focused |-> FALSE, nGoBack |-> 0]

Mutations == {"add", "toggle", "delete"}
InFlight(c) == c.pc # "idle"

\* ------------------------------------------------------------- service
\* GET /api/tasks[?search=q]
ServerList(srv, params) ==
  IF params = {} THEN srv
  ELSE { t \in srv : \A q \in params : Contains(t.title, q) }

\* POST /api/tasks {title, description, highPriority}
ServerCreate(srv, i, body) ==
  srv \cup { Task(i, body.title, body.description, FALSE, body.highPriority) }

\* PUT /api/tasks/{id} with partial fields
ServerUpdate(srv, i, body) ==
  { IF t.id = i
      THEN [f \in DOMAIN t |-> IF f \in DOMAIN body THEN body[f] ELSE t[f]]
      ELSE t : t \in srv }

\* DELETE /api/tasks/{id}
ServerDelete(srv, i) == { t \in srv : t.id # i }

HasId(ts, i) == \E t \in ts : t.id = i

\* ------------------------------------------------------------- store
Undefined == [id |-> 0]

\* getTaskById: tasks.find(t => t.id === taskId)
getTaskById(taskId) ==
  IF HasId(tasks, taskId) THEN CHOOSE t \in tasks : t.id = taskId ELSE Undefined

\* FetchParams dropping the search query.
FetchParams_NoFilter(searchQuery) == {}

\* fetchTasks: params: searchQuery ? { search: searchQuery } : {}
FetchParams(searchQuery) == IF searchQuery # <<>> THEN {searchQuery} ELSE {}

\* addTask: the POST body
PostBody(c) ==
  [title |-> c.title, description |-> c.description, highPriority |-> c.highPriority]

\* PutBody without the negation.
PutBody_SameStatus(c) == [completed |-> c.status]

\* toggleTaskCompletion: the PUT body
PutBody(c) == [completed |-> ~c.status]

\* The slot a new call takes: the first one that holds no call in flight.
CanStart == \E s \in Slots : ~InFlight(calls[s])
FreeSlot == CHOOSE s \in Slots : ~InFlight(calls[s]) /\ \A r \in Slots : r < s => InFlight(calls[r])

\* The calls with slot s taken by call c.
Started(s, c) == [calls EXCEPT ![s] = c]

\* The mutation calls whose write has completed and which have not returned.
WriteCompleted == { r \in Slots : calls[r].op \in Mutations /\ calls[r].pc \in {"list", "listServed"} }

\* fetchTasks up to its await: the list request is issued.
IssueList(c, q, aft) ==
  [c EXCEPT !.pc = "list", !.params = FetchParams(q), !.nList = c.nList + 1,
            !.after = aft]

\* The call returns res to its caller, whose continuation runs: handleSave
\* and the confirmed handleDelete go back on success and alert otherwise.
Returned(c, res) ==
  [c EXCEPT !.pc = "done", !.result = res, !.body = {}, !.after = {},
            !.params = {},
            !.ui = IF c.via \in {"save", "detail"}
                     THEN (IF res = "true" THEN "goBack" ELSE "errorAlert")
                     ELSE c.ui]

\* The calls once the call of slot s has returned: s is free again, and no
\* list request in flight was issued after the write of a call yet to come.
Freed(cs, s) ==
  [r \in Slots |-> IF r = s THEN IdleCall
                   ELSE [cs[r] EXCEPT !.after = cs[r].after \ {s}]]

\* handleSave: setLoading(false) after addTask returned
LoadingAfter(c) == IF c.via = "save" THEN FALSE ELSE loading

Init ==
  /\ server = {}
  /\ nextId = 1
  /\ tasks = {}
  /\ mounted = FALSE
  /\ searchTerm = <<>>
  /\ loading = FALSE
  /\ calls = [s \in Slots |-> IdleCall]
  /\ last = IdleCall
  /\ deleted = {}
  /\ detail = 0

\* ------------------------------------------------------------- handlers
\* A call of fetchTasks(q).
StartFetch(q) ==
  /\ CanStart
  /\ LET s == FreeSlot
         c == [IdleCall EXCEPT !.op = "fetch", !.via = "fetch", !.q = q]
     IN calls' = Started(s, IssueList(c, q, WriteCompleted))
  /\ last' = IdleCall
  /\ UNCHANGED <<server, nextId, tasks, loading, deleted, detail>>

\* TaskProvider: useEffect(() => { fetchTasks(); }, [fetchTasks])
MountEffect ==
  /\ ~mounted
  /\ mounted' = TRUE
  /\ StartFetch(<<>>)
  /\ UNCHANGED searchTerm

\* HomeScreen: useFocusEffect(() => { fetchTasks(searchTerm); })
FocusEffect ==
  /\ mounted
  /\ StartFetch(searchTerm)
  /\ UNCHANGED <<mounted, searchTerm>>

\* HomeScreen.handleSearch
handleSearch(term) ==
  /\ mounted
  /\ searchTerm' = term
  /\ StartFetch(term)
  /\ UNCHANGED mounted

\* addTask up to its first await: the POST is issued.
StartAdd(title, description, highPriority, via) ==
  /\ CanStart
  /\ LET s == FreeSlot
         c == [IdleCall EXCEPT !.op = "add", !.via = via, !.pc = "write",
                               !.title = title, !.description = description,
                               !.highPriority = highPriority, !.nWrite = 1]
     IN calls' = Started(s, c)
  /\ last' = IdleCall
  /\ UNCHANGED <<server, nextId, tasks, mounted, searchTerm, deleted, detail>>

\* addTask called through the context.
addTask(title, description, highPriority) ==
  /\ mounted
  /\ StartAdd(title, description, highPriority, "api")
  /\ UNCHANGED loading

\* AddTaskScreen.handleSave
handleSave(title, description, highPriority) ==
  /\ mounted
  /\ IF Trim(title) = <<>>
       THEN /\ last' = [IdleCall EXCEPT !.via = "save", !.pc = "done", !.title = title,
                                        !.result = "void", !.ui = "validationAlert"]
            /\ UNCHANGED <<server, nextId, tasks, mounted, searchTerm, loading, calls, deleted, detail>>
       ELSE /\ loading' = TRUE
            /\ StartAdd(title, description, highPriority, "save")

\* handleToggle passing the target value as currentStatus.
handleToggle_PassesTarget(task) ==
  /\ CanStart
  /\ LET s == FreeSlot
         c == [IdleCall EXCEPT !.op = "toggle", !.via = "home", !.pc = "write",
                               !.id = task.id, !.seen = task.completed,
                               !.status = ~task.completed, !.nWrite = 1]
     IN calls' = Started(s, c)
  /\ last' = IdleCall
  /\ UNCHANGED <<server, nextId, tasks, mounted, searchTerm, loading, deleted, detail>>

\* HomeScreen.handleToggle(task), task an item of the rendered list: seen is
\* the completed flag the item shows, status the currentStatus argument of
\* toggleTaskCompletion.
handleToggle(task) ==
  /\ CanStart
  /\ LET s == FreeSlot
         c == [IdleCall EXCEPT !.op = "toggle", !.via = "home", !.pc = "write",
                               !.id = task.id, !.seen = task.completed,
                               !.status = task.completed, !.nWrite = 1]
     IN calls' = Started(s, c)
  /\ last' = IdleCall
  /\ UNCHANGED <<server, nextId, tasks, mounted, searchTerm, loading, deleted, detail>>

\* HomeScreen.handleNavigateDetail(task), task an item of the rendered list.
\* The focus effect of the new screen finds the task and stays.
handleNavigateDetail(task) ==
  /\ detail = 0
  /\ detail' = task.id
  /\ last' = IdleCall
  /\ UNCHANGED <<server, nextId, tasks, mounted, searchTerm, loading, calls, deleted>>

\* The calls once the focused detail screen has closed after k goBack
\* requests of its own: the calls confirmed on it count them.
Unfocused(cs, k) ==
  [r \in Slots |-> IF cs[r].focused
                     THEN [cs[r] EXCEPT !.focused = FALSE, !.nGoBack = cs[r].nGoBack + k]
                     ELSE cs[r]]

\* DetailTaskScreen: the header's back button.
headerBack ==
  /\ detail # 0
  /\ detail' = 0
  /\ calls' = Unfocused(calls, 0)
  /\ last' = IdleCall
  /\ UNCHANGED <<server, nextId, tasks, mounted, searchTerm, loading, deleted>>

\* DetailTaskScreen.handleDelete, confirmed, on the screen of task taskId
handleDelete(taskId) ==
  /\ CanStart
  /\ LET s == FreeSlot
         c == [IdleCall EXCEPT !.op = "delete", !.via = "detail", !.pc = "write",
                               !.id = taskId, !.nWrite = 1, !.focused = TRUE]
     IN calls' = Started(s, c)
  /\ last' = IdleCall
  /\ UNCHANGED <<server, nextId, tasks, mounted, searchTerm, loading, deleted, detail>>

\* ------------------------------------------------------------- network
\* The service accepts the write request of call c.
Accepts(c) ==
  IF c.op = "add" THEN nextId <= MaxId ELSE HasId(server, c.id)

\* The server state after the write request of call c.
Written(c) ==
  CASE c.op = "add"    -> ServerCreate(server, nextId, PostBody(c))
    [] c.op = "toggle" -> ServerUpdate(server, c.id, PutBody(c))
    [] c.op = "delete" -> ServerDelete(server, c.id)

\* The service serves the write request of slot s.  A toggle whose window
\* between its update and its list snapshot sees another write to the same
\* task is no longer clean.
ServeWrite(s) ==
  /\ calls[s].pc = "write"
  /\ Accepts(calls[s])
  /\ server' = Written(calls[s])
  /\ nextId' = IF calls[s].op = "add" THEN nextId + 1 ELSE nextId
  /\ calls' = [r \in Slots |->
       IF r = s THEN [calls[s] EXCEPT !.pc = "writeServed", !.clean = TRUE]
       ELSE IF /\ calls[r].pc \in {"writeServed", "list"}
               /\ calls[r].op = "toggle"
               /\ calls[s].op \in {"toggle", "delete"}
               /\ calls[r].id = calls[s].id
            THEN [calls[r] EXCEPT !.clean = FALSE]
            ELSE calls[r]]
  /\ last' = IdleCall
  /\ UNCHANGED <<tasks, mounted, searchTerm, loading, deleted, detail>>

\* RespondWrite with the await before fetchTasks() left out: the call returns
\* true while its list request is in flight.
RespondWrite_NoAwait(s) ==
  /\ calls[s].pc = "writeServed"
  /\ calls' = [calls EXCEPT ![s] =
       IssueList([calls[s] EXCEPT !.wOk = "ok", !.fresh = FALSE], <<>>,
                 WriteCompleted \cup {s})]
  /\ last' = Returned([calls[s] EXCEPT !.wOk = "ok"], "true")
  /\ UNCHANGED <<server, nextId, tasks, mounted, searchTerm, loading, deleted, detail>>

\* RespondWrite with a local patch of the collection: the written change is
\* applied to the in-memory list before the refetch.
RespondWrite_PatchesLocally(s) ==
  /\ calls[s].pc = "writeServed"
  /\ calls' = [calls EXCEPT ![s] =
       IssueList([calls[s] EXCEPT !.wOk = "ok", !.fresh = FALSE], <<>>,
                 WriteCompleted \cup {s})]
  /\ tasks' = CASE calls[s].op = "toggle" -> ServerUpdate(tasks, calls[s].id, PutBody(calls[s]))
                [] calls[s].op = "delete" -> ServerDelete(tasks, calls[s].id)
                [] OTHER -> tasks
  /\ last' = IdleCall
  /\ UNCHANGED <<server, nextId, mounted, searchTerm, loading, deleted, detail>>

\* The write response reaches the client: the call goes on to
\* await fetchTasks().
RespondWrite(s) ==
  /\ calls[s].pc = "writeServed"
  /\ calls' = [calls EXCEPT ![s] =
       IssueList([calls[s] EXCEPT !.wOk = "ok", !.fresh = FALSE], <<>>,
                 WriteCompleted \cup {s})]
  /\ last' = IdleCall
  /\ UNCHANGED <<server, nextId, tasks, mounted, searchTerm, loading, deleted, detail>>

\* FailWrite with the refetch moved out of the try block: it runs after a
\* failed write too.
FailWrite_Refetches(s) ==
  /\ calls[s].pc \in {"write", "writeServed"}
  /\ calls' = [calls EXCEPT ![s] =
       IssueList([calls[s] EXCEPT !.wOk = "fail"], <<>>, WriteCompleted)]
  /\ last' = IdleCall
  /\ UNCHANGED <<server, nextId, tasks, mounted, searchTerm, loading, deleted, detail>>

\* The write request fails (before or after the service served it): the
\* catch block returns false.
FailWrite(s) ==
  /\ calls[s].pc \in {"write", "writeServed"}
  /\ last' = Returned([calls[s] EXCEPT !.wOk = "fail"], "false")
  /\ calls' = Freed(calls, s)
  /\ loading' = LoadingAfter(calls[s])
  /\ UNCHANGED <<server, nextId, tasks, mounted, searchTerm, deleted, detail>>

\* The service serves the list request of slot s.
ServeList(s) ==
  /\ calls[s].pc = "list"
  /\ calls' = [calls EXCEPT ![s] =
       [calls[s] EXCEPT !.pc = "listServed", !.body = ServerList(server, calls[s].params)]]
  /\ last' = IdleCall
  /\ UNCHANGED <<server, nextId, tasks, mounted, searchTerm, loading, deleted, detail>>

\* What the call returns once fetchTasks has returned.
ResultAfterFetch(c) == IF c.op = "fetch" THEN "void" ELSE "true"

\* The ids whose deleteTask has returned true, once call c has returned true.
DeletedAfter(c) == IF c.op = "delete" THEN deleted \cup {c.id} ELSE deleted

\* The goBack requests of the continuation of call c's caller on result res:
\* the confirmed handleDelete goes back when deleteTask returned true.
HandlerBack(c, res) == IF c.via = "detail" /\ res = "true" THEN 1 ELSE 0

\* The goBack requests of the focus effect of the focused detail screen when
\* the collection is set to body.  The effect runs on every new collection and
\* goes back when its task is missing.  When the call that set the collection
\* is the delete confirmed on this screen, its handler goes back in the same
\* turn: the effect has then run before the screen is closed, or it is
\* dropped with the screen.
EffectBacks(c, body) ==
  IF detail # 0 /\ ~HasId(body, detail)
    THEN (IF c.op = "delete" /\ c.focused THEN {0, 1} ELSE {1})
    ELSE {0}

\* Call c of slot s returns res, the focus effect having requested e goBacks:
\* the caller's continuation runs, and the focused detail screen closes when
\* it requested a goBack.  cs are the calls before the return.
Leave(cs, s, c, res, e) ==
  LET h == HandlerBack(c, res)
      k == IF c.focused THEN e + h ELSE e
  IN /\ last' = Returned([c EXCEPT !.focused = FALSE,
                                   !.nGoBack = c.nGoBack + h + (IF c.focused THEN e ELSE 0)],
                         res)
     /\ calls' = Freed(IF k > 0 THEN Unfocused(cs, k) ELSE cs, s)
     /\ detail' = IF k > 0 THEN 0 ELSE detail

\* The list response reaches the client: setTasks(response.data), fetchTasks
\* returns, and so does the mutation that awaited it.
RespondList(s) ==
  /\ calls[s].pc = "listServed"
  /\ tasks' = calls[s].body
  /\ \E e \in EffectBacks(calls[s], calls[s].body) :
       Leave([r \in Slots |->
                IF r \in WriteCompleted
                  THEN [calls[r] EXCEPT !.fresh = (r \in calls[s].after)]
                  ELSE calls[r]],
             s,
             [calls[s] EXCEPT !.lOk = "ok", !.fresh = (s \in calls[s].after)],
             ResultAfterFetch(calls[s]), e)
  /\ loading' = LoadingAfter(calls[s])
  /\ deleted' = DeletedAfter(calls[s])
  /\ UNCHANGED <<server, nextId, mounted, searchTerm>>

\* FailList with a catch block that also empties the collection.
FailList_ClearsTasks(s) ==
  /\ calls[s].pc \in {"list", "listServed"}
  /\ tasks' = {}
  /\ Leave(calls, s, [calls[s] EXCEPT !.lOk = "fail", !.connAlert = TRUE],
           ResultAfterFetch(calls[s]), 0)
  /\ loading' = LoadingAfter(calls[s])
  /\ deleted' = DeletedAfter(calls[s])
  /\ UNCHANGED <<server, nextId, mounted, searchTerm>>

\* The list request fails: fetchTasks logs, raises the connectivity alert
\* and returns; the mutation that awaited it goes on to return true.
FailList(s) ==
  /\ calls[s].pc \in {"list", "listServed"}
  /\ Leave(calls, s, [calls[s] EXCEPT !.lOk = "fail", !.connAlert = TRUE],
           ResultAfterFetch(calls[s]), 0)
  /\ loading' = LoadingAfter(calls[s])
  /\ deleted' = DeletedAfter(calls[s])
  /\ UNCHANGED <<server, nextId, tasks, mounted, searchTerm>>

NetStep(s) ==
  \/ ServeWrite(s)
  \/ RespondWrite(s)
  \/ FailWrite(s)
  \/ ServeList(s)
  \/ RespondList(s)
  \/ FailList(s)

\* The Home screen (or the AddTask screen opened from it) has the focus.
OnHome == mounted /\ detail = 0

Next ==
  \/ MountEffect
  \/ OnHome /\ FocusEffect
  \/ OnHome /\ \E term \in Queries : handleSearch(term)
  \/ \E in \in AddInputs : addTask(in[1], in[2], in[3])
  \/ OnHome /\ \E in \in AddInputs : handleSave(in[1], in[2], in[3])
  \/ OnHome /\ \E task \in tasks : handleToggle(task)
  \/ OnHome /\ \E task \in tasks : handleNavigateDetail(task)
  \/ headerBack
  \/ detail # 0 /\ handleDelete(detail)
  \/ \E s \in Slots : ServeWrite(s)
  \/ \E s \in Slots : RespondWrite(s)
  \/ \E s \in Slots : FailWrite(s)
  \/ \E s \in Slots : ServeList(s)
  \/ \E s \in Slots : RespondList(s)
  \/ \E s \in Slots : FailList(s)

Spec == Init /\ [][Next]_vars

\* Every request is eventually served and answered, or fails.
FairSpec == Spec /\ \A s \in Slots : WF_vars(NetStep(s))

\* ------------------------------------------------------------- home screen
\* The service already holds two tasks when the app starts.
HomeInit ==
  /\ server = { Task(1, <<"a">>, <<>>, FALSE, FALSE), Task(2, <<"b">>, <<"a">>, FALSE, TRUE) }
  /\ nextId = 3
  /\ tasks = {}
  /\ mounted = FALSE
  /\ searchTerm = <<>>
  /\ loading = FALSE
  /\ calls = [s \in Slots |-> IdleCall]
  /\ last = IdleCall
  /\ deleted = {}
  /\ detail = 0

\* The user stays on the Home screen (search edits, focus refetches, toggles
\* from the list) and no request fails.
HomeNext ==
  \/ MountEffect
  \/ OnHome /\ FocusEffect
  \/ OnHome /\ \E term \in Queries : handleSearch(term)
  \/ OnHome /\ \E task \in tasks : handleToggle(task)
  \/ \E s \in Slots : ServeWrite(s)
  \/ \E s \in Slots : RespondWrite(s)
  \/ \E s \in Slots : ServeList(s)
  \/ \E s \in Slots : RespondList(s)

HomeSpec == HomeInit /\ [][HomeNext]_vars

\* ------------------------------------------------------------- claims
WriteStage == {"write", "writeServed"}
ListStage == {"list", "listServed"}

\* The call of slot s returns in this step.
Returns(s) == InFlight(calls[s]) /\ calls'[s].pc = "idle"

\* The list request of slot s fails in this step.
ListFails(s) == calls[s].pc \in ListStage /\ Returns(s) /\ last'.lOk = "fail"

\* The list response of slot s reaches the client in this step.
ListSucceeds(s) == calls[s].pc = "listServed" /\ Returns(s) /\ last'.lOk = "ok"

\* The write request of slot s fails in this step.
WriteFails(s) ==
  /\ calls[s].pc \in WriteStage
  /\ calls'[s].pc \notin WriteStage
  /\ calls'[s].wOk # "ok"

Blankish(title) == Trim(title) = <<>>

\* C1: whenever a mutation call returns true, the collection is the body of
\* a list response that was requested after the call's write completed,
\* also when the call's own list request failed.
C1_FreshOnSuccess ==
  (last.op \in Mutations /\ last.result = "true") => last.fresh

\* The step in which the list request of a fetchTasks call fails.
C2_FailedFetchStep ==
  \A s \in Slots :
    (calls[s].op = "fetch" /\ ListFails(s)) =>
      /\ tasks' = tasks
      /\ last'.connAlert
      /\ last'.result = "void"
      /\ last'.nList = 1

C2_OneListRequest == \A s \in Slots : calls[s].op = "fetch" => calls[s].nList <= 1

\* C2: when the list request of fetchTasks fails, the collection is what it
\* was, the connectivity alert is raised, the call returns normally, and the
\* call has issued one list request only (no retry).
C2_FetchFailure == []C2_OneListRequest /\ [][C2_FailedFetchStep]_vars

\* A fetchTasks call has just failed and left a non-empty collection.
C2_Witness == last.op = "fetch" /\ last.lOk = "fail" /\ tasks # {}

\* C3: add called with a title that is empty after trimming issues no
\* request and reports false to its caller.
C3_BlankTitleNoRequest ==
  /\ \A s \in Slots :
       (calls[s].op = "add" /\ Blankish(calls[s].title)) =>
         (calls[s].nWrite = 0 /\ calls[s].nList = 0)
  /\ (last.op = "add" /\ Blankish(last.title)) =>
       (last.nWrite = 0 /\ last.nList = 0 /\ last.result = "false")

\* The step in which the write request of a mutation call fails.
C4_FailedWriteStep ==
  \A s \in Slots :
    (calls[s].op \in Mutations /\ WriteFails(s)) =>
      /\ Returns(s)
      /\ last'.result = "false"
      /\ last'.nList = 0
      /\ tasks' = tasks

\* C4: when the write request of a mutation fails, the call returns false
\* without throwing, issues no list request, and leaves the collection as
\* it was.
C4_WriteFailure == [][C4_FailedWriteStep]_vars

\* A mutation has just returned false; the service had applied its write, so
\* the collection, left alone, differs from the server state.
C4_Witness ==
  /\ last.op \in Mutations /\ last.wOk = "fail" /\ last.result = "false"
  /\ tasks # {} /\ tasks # server

\* The steps of a fetchTasks(q) call: its request is served, its response
\* reaches the client.
C5_FetchStep ==
  \A s \in Slots :
    calls[s].op = "fetch" =>
      /\ (calls[s].pc = "list" /\ calls'[s].pc = "listServed") =>
            /\ calls[s].params = (IF calls[s].q = <<>> THEN {} ELSE {calls[s].q})
            /\ calls'[s].body =
                 (IF calls[s].q = <<>> THEN server
                  ELSE { t \in server : Contains(t.title, calls[s].q) })
      /\ ListSucceeds(s) => tasks' = calls[s].body

\* C5: a successful fetchTasks(q) replaces the collection by the list
\* response; the request carries q as its filter when q is not empty and no
\* filter otherwise, so the response is the service's tasks matching q, or
\* all of them.
C5_FetchReplaces == [][C5_FetchStep]_vars

\* A filtered fetch has just set the collection to the empty match of a
\* service that holds a task.
C5_Witness ==
  /\ last.op = "fetch" /\ last.lOk = "ok" /\ last.q # <<>>
  /\ tasks = {} /\ server # {}

\* The service serves the update of toggle call s in this step.
UpdateServed(s) ==
  calls[s].op = "toggle" /\ calls[s].pc = "write" /\ calls'[s].pc = "writeServed"

\* The update of toggleCompletion(id, currentStatus) sets the completed field
\* of task id to the negation of currentStatus and touches no other field
\* and no other task.
C6_UpdateStep ==
  \A s \in Slots :
    UpdateServed(s) =>
      server' = { IF t.id = calls[s].id
                    THEN [t EXCEPT !.completed = ~calls[s].status]
                    ELSE t : t \in server }

\* When the update and the following fetch succeed, the task shows the
\* negation of currentStatus in the collection afterwards.
C6_FlippedAlways ==
  (last.op = "toggle" /\ last.result = "true" /\ last.lOk = "ok") =>
    \A t \in tasks : t.id = last.id => t.completed = ~last.status

\* C6 as stated: the update negates currentStatus and touches nothing else,
\* and after a successful update and fetch the task shows the negated flag.
C6_ToggleFlips == []C6_FlippedAlways /\ [][C6_UpdateStep]_vars

\* The same for a toggle between whose update and list snapshot the service
\* served no other update or delete of that task: the task is in the
\* collection with the negated flag.
C6_FlippedWhenClean ==
  (last.op = "toggle" /\ last.result = "true" /\ last.lOk = "ok" /\ last.clean) =>
    \E t \in tasks : t.id = last.id /\ t.completed = ~last.status

\* C6 as amended: the update negates currentStatus and touches nothing else;
\* after a successful update and fetch the task is in the collection with the
\* negated flag, provided the service served no other update or delete of
\* that task between this call's update and its list request.
C6_ToggleFlipsUndisturbed == []C6_FlippedWhenClean /\ [][C6_UpdateStep]_vars

\* A toggle of a completed task has just returned and shows it open again.
C6_Witness ==
  /\ last.op = "toggle" /\ last.result = "true" /\ last.lOk = "ok" /\ last.clean
  /\ last.status = TRUE
  /\ \E t \in tasks : t.id = last.id /\ t.completed = FALSE

\* Every collection fetched after deleteTask(id) returned true lacks task id.
C7_FetchStep ==
  \A s \in Slots :
    ListSucceeds(s) => \A i \in deleted : getTaskById(i)' = Undefined

C7_Lookup ==
  \A i \in Ids :
    IF HasId(tasks, i)
      THEN getTaskById(i) \in tasks /\ getTaskById(i).id = i
      ELSE getTaskById(i) = Undefined

\* C7: once deleteTask(id) has returned true, no successfully fetched
\* collection holds task id, so getTaskById(id) is undefined from the next
\* fetch on; getTaskById(id) is the task of the collection with that id, and
\* undefined exactly when there is none.
C7_DeletedStaysGone == []C7_Lookup /\ [][C7_FetchStep]_vars

\* C8: after addTask returns true the collection holds a task with the
\* submitted title.
C8_AddedTitleVisible ==
  (last.op = "add" /\ last.result = "true") =>
    \E t \in tasks : t.title = last.title

\* A list response that reaches the client sets the collection.
C9_LastResponseSets ==
  \A s \in Slots : ListSucceeds(s) => tasks' = calls[s].body

\* Once a toggle and a delete of the same task have both returned true, the
\* toggle last and after its list response, and no request is in flight, the
\* collection is the server state.
C9_FinalState ==
  ( /\ \A s \in Slots : ~InFlight(calls[s])
    /\ last.op = "toggle" /\ last.result = "true" /\ last.lOk = "ok"
    /\ last.id \in deleted )
  => tasks = server

\* C9: when two mutations race, the collection is set by the list response
\* that completes last, and once every request has completed it equals the
\* final server state.
C9_RaceEndsAtServerState == []C9_FinalState /\ [][C9_LastResponseSets]_vars

\* The order of the steps of a mutation call, in flight and as returned.
C10_Ordered ==
  /\ \A s \in Slots :
       calls[s].op \in Mutations =>
         /\ calls[s].result = "none"
         /\ calls[s].pc \in WriteStage => (calls[s].wOk = "none" /\ calls[s].nList = 0)
         /\ calls[s].pc \in ListStage => (calls[s].wOk = "ok" /\ calls[s].nList = 1)
         /\ calls[s].nWrite = 1
  /\ last.op \in Mutations =>
       /\ last.result = "true" => (last.wOk = "ok" /\ last.lOk \in {"ok", "fail"})
       /\ last.result = "false" => (last.wOk = "fail" /\ last.nList = 0)
       /\ last.result \in {"true", "false"}

\* A mutation call in flight returns: no slot holds a mutation call for ever
\* (a slot holds the same call until that call returns).
C10_Returns ==
  \A s \in Slots : []<>(calls[s].op \notin Mutations)

\* C10: within a mutation call the list request is issued only after the
\* write request has succeeded, the call returns only after that list
\* request has completed, never while a request of its own is in flight,
\* and it returns eventually when each request eventually succeeds or fails.
C10_OrderedAndReturns == []C10_Ordered /\ C10_Returns

\* A mutation has just returned true after its list request failed, another
\* call still being in flight.
C10_Witness ==
  /\ last.op \in Mutations /\ last.result = "true" /\ last.lOk = "fail"
  /\ \E s \in Slots : InFlight(calls[s])

\* A step that changes the collection is the arrival of a successful list
\* response of some call, and the collection becomes that response's body.
C11_WriteStep ==
  tasks' # tasks =>
    \E s \in Slots : ListSucceeds(s) /\ tasks' = calls[s].body

\* A step in which no list response arrives successfully (a call is started,
\* a request is served, a write response arrives, a request fails, a lookup)
\* leaves the collection as it was.
C11_OtherStep ==
  (\A s \in Slots : ~ListSucceeds(s)) => tasks' = tasks

\* C11: the collection has no independent write path: it starts as the empty
\* list, and every step that changes it is the assignment of the body of a
\* successfully completed list response; starting a call, the steps of
\* addTask, toggleTaskCompletion and deleteTask before their refetch answers,
\* and getTaskById leave it unchanged.
C11_OnlyFetchWrites ==
  /\ tasks = {}
  /\ [][C11_WriteStep /\ C11_OtherStep]_vars

\* A mutation has returned true after its refetch failed: the service holds
\* its change and the collection is still the non-empty list fetched earlier.
C11_Witness ==
  /\ last.op \in Mutations /\ last.result = "true" /\ last.lOk = "fail"
  /\ tasks # {} /\ tasks # server


\* The provider has mounted and no request is outstanding.
C12_Settled == mounted /\ \A s \in Slots : ~InFlight(calls[s])

\* C12: the Home list is consistent with its search term: once every
\* outstanding request has completed successfully, the collection equals the
\* service's list filtered by Home's current search term, after any sequence
\* of search edits, focus refetches and toggles issued from the list.
C12_ListMatchesSearchTerm ==
  C12_Settled => tasks = ServerList(server, FetchParams(searchTerm))

\* Toggle calls r and s are both in flight on the same task: s was issued
\* before the refetch of r replaced the collection, or r before that of s.
C13_Overlap(r, s) ==
  /\ r # s
  /\ calls[r].op = "toggle" /\ calls[s].op = "toggle"
  /\ calls[r].id = calls[s].id

\* Overlapping toggles that were issued from the same cached completed flag.
C13_SameFlag(r, s) == C13_Overlap(r, s) /\ calls[r].seen = calls[s].seen

\* Two overlapping toggles of a task send the same completed value.
C13_OverlapSendsSame ==
  \A r, s \in Slots : C13_Overlap(r, s) => PutBody(calls[r]) = PutBody(calls[s])

\* Two toggles issued from the same cached flag both send its negation.
C13_SendNegation ==
  \A r, s \in Slots :
    C13_SameFlag(r, s) =>
      /\ PutBody(calls[r]) = PutBody(calls[s])
      /\ PutBody(calls[s]).completed = ~calls[s].seen

\* When the update of the second of them is served after that of the first,
\* the service holds the negation of the cached flag: the flag is flipped
\* once, and not restored.
C13_SecondUpdateStep ==
  \A r, s \in Slots :
    (C13_SameFlag(r, s) /\ calls[r].pc \notin WriteStage /\ UpdateServed(s)) =>
      \A t \in server' : t.id = calls[s].id => t.completed = ~calls[s].seen

\* C13: the toggle value is derived from the cached task: two toggle intents
\* on the same task issued from the Home list while it shows the same
\* completed flag both send the negation of that flag, so once both updates
\* are served the service's flag is flipped once relative to the cached one.
C13_StaleToggleFlipsOnce == []C13_SendNegation /\ [][C13_SecondUpdateStep]_vars

\* Both toggles of a task shown open were served and await their refetch; the
\* service holds the task as completed.
C13_Witness ==
  \E r, s \in Slots :
    /\ C13_SameFlag(r, s) /\ calls[s].seen = FALSE
    /\ calls[r].pc \notin WriteStage /\ calls[s].pc \notin WriteStage
    /\ \E t \in server : t.id = calls[s].id /\ t.completed = TRUE

\* C14: a confirmed delete on the detail screen whose deleteTask returns true
\* causes exactly one back-navigation: from the confirmation to the return of
\* the handler, goBack is requested once on its screen, counting the handler's
\* success branch and the focus effect; a delete whose deleteTask returns
\* false takes the handler's other branch, which requests no goBack and
\* raises the error alert.
C14_OneBackNavigation ==
  /\ (last.op = "delete" /\ last.result = "true") => last.nGoBack = 1
  /\ (last.op = "delete" /\ last.result = "false") => last.ui = "errorAlert"

=============================================================================
